---- MODULE Spec2Model ----
(***************************************************************************)
(* FitCheck engine: the ingestion pipeline (scripts/ingest_papers.py) and  *)
(* the search service (ml_service/main.py).                                *)
(*                                                                         *)
(* Three specifications share this module:                                 *)
(*   SpecChunk    TextProcessor.chunk_text, one loop iteration per step    *)
(*   SpecRun      PaperIngestionPipeline.run over a row store              *)
(*   SpecService  the FastAPI service: startup, /health, /search, /stats   *)
(* Each specification keeps the variables of the other two at rest.        *)
(***************************************************************************)
EXTENDS Integers, Sequences, FiniteSets, TLC

VARIABLES
    \* ---- TextProcessor.chunk_text
    sentences,        \* the result of re.split: word count of each sentence
    chunk_size,       \* self.chunk_size
    chunk_overlap,    \* self.chunk_overlap
    sent_i,           \* position of the for loop in sentences
    chunks,           \* the list of emitted chunks
    current_chunk,    \* sentences (positions) of the growing chunk
    current_length,   \* running word count of the growing chunk
    cpc,              \* "loop" | "done"
    \* ---- PaperIngestionPipeline.run and the research_papers table
    store,            \* committed rows of research_papers
    pending,          \* rows written by the open transaction, not committed
    lines,            \* the lines of the data file of this run
    papers,           \* load_papers' result
    processed_titles, \* get_processed_papers' result
    papers_to_process,
    failed_papers,    \* self.failed_papers
    doc_i,            \* position of the processing loop in papers_to_process
    ins_chunks,       \* chunks of the document being inserted
    ins_k,            \* next chunk index of the insert loop
    total_chunks,
    processed_papers,
    rpc,              \* where run() is
    abort_reason,     \* the exception that left run(), "none" if none did
    count_emitted,    \* the "Failed papers: n" line was logged by this run
    log_written,      \* failed_papers.log was written by this run
    failed_log,       \* what this run wrote to failed_papers.log
    store0,           \* history: the store when this run started
    visited,          \* history: process_paper calls of this run, in order
    discarded,        \* history: rows the last failed insert had written
    \* ---- the FastAPI service (ml_service/main.py)
    svc,              \* "init" | "ready" | "failed": the startup event
    embedding_model,  \* TRUE once the global embedding_model is set
    open_conns,       \* connections get_connection returned, not closed
    request,          \* the request being handled
    sim,              \* similarity of each stored row to the query vector
    db_results,       \* what DatabaseManager.semantic_search returned
    response          \* what the handler answers

chunkVars == <<sentences, chunk_size, chunk_overlap, sent_i, chunks,
               current_chunk, current_length, cpc>>

runVars == <<store, pending, lines, papers, processed_titles,
             papers_to_process, failed_papers, doc_i, ins_chunks, ins_k,
             total_chunks, processed_papers, rpc, abort_reason, count_emitted,
             log_written, failed_log, store0, visited, discarded>>

svcVars == <<svc, embedding_model, open_conns, request, sim, db_results,
             response>>

vars == <<chunkVars, runVars, svcVars>>

----------------------------------------------------------------------------
\* Bounds of the model

MaxSentences == 4
MaxWords == 3
MaxChunkSize == 4
MaxOverlap == 2

Min(a, b) == IF a < b THEN a ELSE b

----------------------------------------------------------------------------
\* TextProcessor.chunk_text

\* Sequences of length 1..n over S
SeqsUpTo(S, n) == UNION {[1..k -> S] : k \in 1..n}

\* re.split(r'(?<=[.!?])\s+', text): a cleaned, non-empty text gives one or
\* more sentences of at least one word each; the empty text gives [""], one
\* sentence of zero words.
SentenceInputs == SeqsUpTo(1..MaxWords, MaxSentences) \cup {<<0>>}

\* A mutation of SumWords: the sentences are counted, not their words
SumWordsCountsSentences(lens, ps) == Len(ps)

RECURSIVE SumWords(_, _)
\* sum(len(s.split()) for s in ps)
SumWords(lens, ps) ==
    IF ps = <<>> THEN 0 ELSE lens[Head(ps)] + SumWords(lens, Tail(ps))

\* A mutation of OverlapSentences: the slice taken from the front
OverlapSentencesFront(cc, ov) == SubSeq(cc, 1, Min(ov, Len(cc)))

\* current_chunk[-self.chunk_overlap:] for chunk_overlap > 0
OverlapSentences(cc, ov) == SubSeq(cc, Len(cc) - Min(ov, Len(cc)) + 1, Len(cc))

\* The chunk record appended to chunks: 'text' is ' '.join(cc), kept as the
\* sentences joined; 'word_count' is the running count.
MakeChunk(cc, len) == [sents |-> cc, word_count |-> len]

\* One iteration of the for loop over sentences, on sentence p
ChunkIter(st, p, lens, size, ov) ==
    LET sentence_length == lens[p]
        close == st.current_length + sentence_length > size
                 /\ st.current_chunk # <<>>
        keep  == close /\ ov > 0 /\ Len(st.current_chunk) > 1
        seed  == IF ~close THEN st.current_chunk
                 ELSE IF keep THEN OverlapSentences(st.current_chunk, ov)
                 ELSE <<>>
        seedlen == IF ~close THEN st.current_length
                   ELSE IF keep THEN SumWords(lens, seed)
                   ELSE 0
    IN  [chunks |-> IF close
                    THEN Append(st.chunks,
                                MakeChunk(st.current_chunk, st.current_length))
                    ELSE st.chunks,
         current_chunk  |-> Append(seed, p),
         current_length |-> seedlen + sentence_length]

\* "Add final chunk"
ChunkFlush(st) ==
    IF st.current_chunk # <<>>
    THEN Append(st.chunks, MakeChunk(st.current_chunk, st.current_length))
    ELSE st.chunks

RECURSIVE ChunkFold(_, _, _, _, _)
ChunkFold(st, p, lens, size, ov) ==
    IF p > Len(lens) THEN st
    ELSE ChunkFold(ChunkIter(st, p, lens, size, ov), p + 1, lens, size, ov)

\* chunk_text as a function of the sentence list
ChunkText(lens, size, ov) ==
    ChunkFlush(ChunkFold([chunks |-> <<>>, current_chunk |-> <<>>,
                          current_length |-> 0], 1, lens, size, ov))

ChunkInit ==
    /\ sentences \in SentenceInputs
    /\ chunk_size \in 1..MaxChunkSize
    /\ chunk_overlap \in 0..MaxOverlap
    /\ sent_i = 1
    /\ chunks = <<>>
    /\ current_chunk = <<>>
    /\ current_length = 0
    /\ cpc = "loop"

ChunkRest ==
    /\ sentences = <<0>>
    /\ chunk_size = 1
    /\ chunk_overlap = 0
    /\ sent_i = 1
    /\ chunks = <<>>
    /\ current_chunk = <<>>
    /\ current_length = 0
    /\ cpc = "rest"

ChunkLoop ==
    /\ cpc = "loop"
    /\ sent_i <= Len(sentences)
    /\ LET st == ChunkIter([chunks |-> chunks, current_chunk |-> current_chunk,
                            current_length |-> current_length],
                           sent_i, sentences, chunk_size, chunk_overlap)
       IN  /\ chunks' = st.chunks
           /\ current_chunk' = st.current_chunk
           /\ current_length' = st.current_length
    /\ sent_i' = sent_i + 1
    /\ UNCHANGED <<sentences, chunk_size, chunk_overlap, cpc>>
    /\ UNCHANGED <<runVars, svcVars>>

ChunkReturn ==
    /\ cpc = "loop"
    /\ sent_i > Len(sentences)
    /\ chunks' = ChunkFlush([chunks |-> chunks, current_chunk |-> current_chunk,
                             current_length |-> current_length])
    /\ cpc' = "done"
    /\ UNCHANGED <<sentences, chunk_size, chunk_overlap, sent_i,
                   current_chunk, current_length>>
    /\ UNCHANGED <<runVars, svcVars>>

----------------------------------------------------------------------------
\* The data file and the research_papers table

MaxLines == 2
\* A run starts only while the store holds fewer rows than this
MaxStoreRows == 3
\* CHUNK_SIZE and CHUNK_OVERLAP of the pipeline's TextProcessor, scaled down
RunChunkSize == 4
RunChunkOverlap == 1

Titles == {"A", "B"}
NoTitle == "None"          \* paper.get('title') of an object with no title

\* The text of a document after clean_text, as its sentence list: <<>> when
\* abstract and full_text are absent or blank, <<0>> when the text is not
\* blank and cleaning leaves nothing.
Texts == {<<>>, <<0>>, <<2, 2, 2>>}

Documents ==
    {[kind |-> "doc", title |-> t, text |-> x] : t \in Titles, x \in Texts}
    \cup {[kind |-> "doc", title |-> NoTitle, text |-> <<2, 2, 2>>]}

\* A line json.loads rejects, and a line holding JSON that is not an object
BadLine == [kind |-> "bad", title |-> NoTitle, text |-> <<>>]
ScalarLine == [kind |-> "scalar", title |-> NoTitle, text |-> <<>>]

LineKinds == Documents \cup {BadLine, ScalarLine}

DataFiles == {<<>>} \cup SeqsUpTo(LineKinds, MaxLines)

Failure(reason, line, title) ==
    [reason |-> reason, line |-> line, title |-> title]

\* paper.get('title', default)
TitleOr(paper, default) ==
    IF paper.title = NoTitle THEN default ELSE paper.title

RECURSIVE LoadFrom(_, _)
\* The for loop of load_papers from line n on: <<papers, failures>>
LoadFrom(file, n) ==
    IF n > Len(file) THEN <<<<>>, <<>>>>
    ELSE LET rest == LoadFrom(file, n + 1)
         IN  IF file[n].kind = "bad"
             THEN <<rest[1], <<Failure("json", n, "")>> \o rest[2]>>
             ELSE <<<<file[n]>> \o rest[1], rest[2]>>

\* SELECT DISTINCT title FROM research_papers
StoredTitles(st) == {r.title : r \in st}

\* The paper_id of a new insert call: the title and a time stamp, kept as
\* the ordinal of the call among the stored ingestions of the title
NewPaperId(st, title) ==
    <<title, Cardinality({r.paper_id : r \in {q \in st : q.title = title}}) + 1>>

\* A mutation of Row: the chunk index counted from 1
RowIndexFromOne(paper, pid, i, n, chunk) ==
    [title |-> paper.title, paper_id |-> pid, chunk_index |-> i + 1,
     total_chunks |-> n, word_count |-> chunk.word_count]

\* The row of chunk i (cursor.execute INSERT)
Row(paper, pid, i, n, chunk) ==
    [title |-> paper.title, paper_id |-> pid, chunk_index |-> i,
     total_chunks |-> n, word_count |-> chunk.word_count]

\* The view research_papers_stats: total_chunks counts the rows,
\* unique_papers the distinct paper_id values
TotalChunksStat(st) == Cardinality(st)
UniquePapersStat(st) == Cardinality({r.paper_id : r \in st})

\* A mutation of CloseConnection: the open transaction's rows are kept
CloseConnectionKeeps(st, pend) == st \cup pend

\* conn.close() in the finally of insert_paper_chunks: rows of a transaction
\* that was neither committed nor rolled back are discarded
CloseConnection(st, pend) == st

\* conn.rollback()
Rollback(st, pend) == st

\* A mutation of Commit: the rows of the transaction are not stored
CommitLosesRows(st, pend) == st

\* conn.commit()
Commit(st, pend) == st \cup pend

\* A mutation of AfterPaperFailure: the exception leaves run()
AfterPaperFailureRaises == "aborted"

\* process_paper's except Exception returns 0 and the loop goes on
AfterPaperFailure == "process"

RunRest ==
    /\ store = {}
    /\ pending = {}
    /\ lines = <<>>
    /\ papers = <<>>
    /\ processed_titles = {}
    /\ papers_to_process = <<>>
    /\ failed_papers = <<>>
    /\ doc_i = 1
    /\ ins_chunks = <<>>
    /\ ins_k = 0
    /\ total_chunks = 0
    /\ processed_papers = 0
    /\ rpc = "idle"
    /\ abort_reason = "none"
    /\ count_emitted = FALSE
    /\ log_written = FALSE
    /\ failed_log = <<>>
    /\ store0 = {}
    /\ visited = <<>>
    /\ discarded = 0

\* main(): PaperIngestionPipeline() over a data file, and the start of run()
StartRun ==
    /\ rpc = "idle"
    /\ Cardinality(store) < MaxStoreRows
    /\ \E file \in DataFiles : lines' = file
    /\ rpc' = "load"
    /\ store0' = store
    /\ UNCHANGED <<store, pending, papers, processed_titles, papers_to_process,
                   failed_papers, doc_i, ins_chunks, ins_k, total_chunks,
                   processed_papers, abort_reason, count_emitted, log_written,
                   failed_log, visited, discarded>>
    /\ UNCHANGED <<chunkVars, svcVars>>

\* main() ends: run() returned, or its exception was logged and the process
\* exits with status 1.  The pipeline object is gone; the table stays.
Exit ==
    /\ rpc \in {"returned", "aborted"}
    /\ lines' = <<>>
    /\ papers' = <<>>
    /\ processed_titles' = {}
    /\ papers_to_process' = <<>>
    /\ failed_papers' = <<>>
    /\ doc_i' = 1
    /\ ins_chunks' = <<>>
    /\ ins_k' = 0
    /\ total_chunks' = 0
    /\ processed_papers' = 0
    /\ rpc' = "idle"
    /\ abort_reason' = "none"
    /\ count_emitted' = FALSE
    /\ log_written' = FALSE
    /\ failed_log' = <<>>
    /\ store0' = {}
    /\ visited' = <<>>
    /\ discarded' = 0
    /\ UNCHANGED <<store, pending>>
    /\ UNCHANGED <<chunkVars, svcVars>>

\* load_papers, then "if not papers: return"
LoadPapers ==
    /\ rpc = "load"
    /\ LET loaded == LoadFrom(lines, 1)
       IN  /\ papers' = loaded[1]
           /\ failed_papers' = failed_papers \o loaded[2]
           /\ rpc' = IF loaded[1] = <<>> THEN "returned" ELSE "filter"
    /\ UNCHANGED <<store, pending, lines, processed_titles,
                   papers_to_process, doc_i, ins_chunks, ins_k, total_chunks,
                   processed_papers, abort_reason, count_emitted, log_written,
                   failed_log, store0, visited, discarded>>
    /\ UNCHANGED <<chunkVars, svcVars>>

\* The data file does not exist: load_papers raises FileNotFoundError
LoadPapersNoFile ==
    /\ rpc = "load"
    /\ lines = <<>>
    /\ rpc' = "aborted"
    /\ abort_reason' = "FileNotFoundError"
    /\ UNCHANGED <<store, pending, lines, papers, processed_titles,
                   papers_to_process, failed_papers, doc_i, ins_chunks, ins_k,
                   total_chunks, processed_papers, count_emitted, log_written,
                   failed_log, store0, visited, discarded>>
    /\ UNCHANGED <<chunkVars, svcVars>>

\* get_processed_papers: the titles of the store, or set() when the query
\* raises PostgreSQLError
GetProcessedPapers(st, outcome) ==
    IF outcome = "ok" THEN StoredTitles(st) ELSE {}

\* "Filter out already processed papers"
FilterPapers(ps, titles) ==
    SelectSeq(ps, LAMBDA paper : paper.title \notin titles)

\* run(): get_processed_papers, the filter loop and "if not
\* papers_to_process: return".  get_connection is outside the try of
\* get_processed_papers, so a failed connect leaves run(); paper.get on a
\* loaded value that is not an object raises AttributeError in the loop.
FilterProcessed ==
    /\ rpc = "filter"
    /\ \E outcome \in {"ok", "dberror", "connect"} :
        IF outcome = "connect"
        THEN /\ rpc' = "aborted"
             /\ abort_reason' = "OperationalError"
             /\ UNCHANGED <<processed_titles, papers_to_process>>
        ELSE /\ processed_titles' = GetProcessedPapers(store, outcome)
             /\ IF \E n \in 1..Len(papers) : papers[n].kind = "scalar"
                THEN /\ rpc' = "aborted"
                     /\ abort_reason' = "AttributeError"
                     /\ UNCHANGED papers_to_process
                ELSE /\ papers_to_process' =
                            FilterPapers(papers, processed_titles')
                     /\ rpc' = IF papers_to_process' = <<>>
                               THEN "returned" ELSE "model"
                     /\ UNCHANGED abort_reason
    /\ UNCHANGED <<store, pending, lines, papers, failed_papers, doc_i,
                   ins_chunks, ins_k, total_chunks, processed_papers,
                   count_emitted, log_written, failed_log, store0, visited,
                   discarded>>
    /\ UNCHANGED <<chunkVars, svcVars>>

\* self.embedding_generator.load_model(), which re-raises
LoadModel ==
    /\ rpc = "model"
    /\ \E ok \in BOOLEAN :
        IF ok THEN rpc' = "process" /\ UNCHANGED abort_reason
        ELSE rpc' = "aborted" /\ abort_reason' = "ModelLoadError"
    /\ UNCHANGED <<store, pending, lines, papers, processed_titles,
                   papers_to_process, failed_papers, doc_i, ins_chunks, ins_k,
                   total_chunks, processed_papers, count_emitted, log_written,
                   failed_log, store0, visited, discarded>>
    /\ UNCHANGED <<chunkVars, svcVars>>

\* process_paper returned 0 after recording failure f; the loop of run()
\* takes the next paper
PaperFailed(paper, f, lost) ==
    /\ failed_papers' = Append(failed_papers, f)
    /\ visited' = Append(visited, [paper |-> paper, count |-> 0])
    /\ doc_i' = doc_i + 1
    /\ rpc' = AfterPaperFailure
    /\ discarded' = lost
    /\ UNCHANGED <<total_chunks, processed_papers>>

\* process_paper up to the first INSERT: content check, clean and chunk,
\* embeddings, then the connection and paper_id of insert_paper_chunks
ProcessPaper ==
    /\ rpc = "process"
    /\ doc_i <= Len(papers_to_process)
    /\ LET paper == papers_to_process[doc_i]
           cs == ChunkText(paper.text, RunChunkSize, RunChunkOverlap)
       IN  \E outcome \in {"ok", "embedding", "connect"} :
            IF paper.text = <<>>
            THEN /\ PaperFailed(paper,
                       Failure("No content", 0, TitleOr(paper, "Untitled")), 0)
                 /\ UNCHANGED <<ins_chunks, ins_k>>
            ELSE IF cs = <<>>
            THEN /\ PaperFailed(paper,
                       Failure("No chunks", 0, TitleOr(paper, "Untitled")), 0)
                 /\ UNCHANGED <<ins_chunks, ins_k>>
            ELSE IF outcome # "ok" \/ paper.title = NoTitle
            THEN \* generate_embeddings or get_connection raises, or
                 \* paper_data['title'] raises KeyError
                 /\ PaperFailed(paper,
                       Failure("Processing error", 0, TitleOr(paper, "Unknown")),
                       0)
                 /\ UNCHANGED <<ins_chunks, ins_k>>
            ELSE /\ ins_chunks' = cs
                 /\ ins_k' = 0
                 /\ rpc' = "insert"
                 /\ UNCHANGED <<failed_papers, visited, doc_i, total_chunks,
                                processed_papers, discarded>>
    /\ UNCHANGED <<store, pending, lines, papers, processed_titles,
                   papers_to_process, abort_reason, count_emitted, log_written,
                   failed_log, store0>>
    /\ UNCHANGED <<chunkVars, svcVars>>

\* One iteration of the loop of insert_paper_chunks: the INSERT of chunk
\* ins_k, which may raise PostgreSQLError (rollback) or another exception
\* (only the finally runs)
InsertRow ==
    /\ rpc = "insert"
    /\ ins_k < Len(ins_chunks)
    /\ LET paper == papers_to_process[doc_i]
           pid == NewPaperId(store, paper.title)
           row == Row(paper, pid, ins_k, Len(ins_chunks), ins_chunks[ins_k + 1])
       IN  \E outcome \in {"ok", "dberror", "exception"} :
            IF outcome = "ok"
            THEN /\ pending' = pending \cup {row}
                 /\ ins_k' = ins_k + 1
                 /\ UNCHANGED <<store, failed_papers, visited, doc_i, rpc,
                                total_chunks, processed_papers, discarded>>
            ELSE /\ store' = IF outcome = "dberror"
                             THEN CloseConnection(Rollback(store, pending), {})
                             ELSE CloseConnection(store, pending)
                 /\ pending' = {}
                 /\ PaperFailed(paper,
                       Failure("Processing error", 0, TitleOr(paper, "Unknown")),
                       Cardinality(pending))
                 /\ UNCHANGED ins_k
    /\ UNCHANGED <<lines, papers, processed_titles, papers_to_process,
                   ins_chunks, abort_reason, count_emitted, log_written,
                   failed_log, store0>>
    /\ UNCHANGED <<chunkVars, svcVars>>

\* conn.commit() after the last INSERT; process_paper returns len(chunks)
InsertCommit ==
    /\ rpc = "insert"
    /\ ins_k = Len(ins_chunks)
    /\ LET paper == papers_to_process[doc_i]
       IN  \E ok \in BOOLEAN :
            IF ok
            THEN /\ store' = CloseConnection(Commit(store, pending), {})
                 /\ pending' = {}
                 /\ visited' = Append(visited,
                        [paper |-> paper, count |-> Len(ins_chunks)])
                 /\ total_chunks' = total_chunks + Len(ins_chunks)
                 /\ processed_papers' = processed_papers + 1
                 /\ doc_i' = doc_i + 1
                 /\ rpc' = "process"
                 /\ UNCHANGED <<failed_papers, discarded>>
            ELSE /\ store' = CloseConnection(Rollback(store, pending), {})
                 /\ pending' = {}
                 /\ PaperFailed(paper,
                       Failure("Processing error", 0, TitleOr(paper, "Unknown")),
                       Cardinality(pending))
    /\ UNCHANGED <<lines, papers, processed_titles, papers_to_process,
                   ins_chunks, ins_k, abort_reason, count_emitted, log_written,
                   failed_log, store0>>
    /\ UNCHANGED <<chunkVars, svcVars>>

\* The end of run(): the final statistics, get_stats, failed_papers.log.
\* get_connection is outside the try of get_stats.
Report ==
    /\ rpc = "process"
    /\ doc_i > Len(papers_to_process)
    /\ count_emitted' = TRUE
    /\ \E outcome \in {"ok", "dberror", "connect"} :
        IF outcome = "connect"
        THEN /\ rpc' = "aborted"
             /\ abort_reason' = "OperationalError"
             /\ UNCHANGED <<log_written, failed_log>>
        ELSE /\ rpc' = "returned"
             /\ log_written' = (failed_papers # <<>>)
             /\ failed_log' = failed_papers
             /\ UNCHANGED abort_reason
    /\ UNCHANGED <<store, pending, lines, papers, processed_titles,
                   papers_to_process, failed_papers, doc_i, ins_chunks, ins_k,
                   total_chunks, processed_papers, store0, visited, discarded>>
    /\ UNCHANGED <<chunkVars, svcVars>>

----------------------------------------------------------------------------
\* The search service

MaxRows == 4
MaxScore == 2
\* A handler that leaks a connection runs only below this many open ones
MaxOpenConns == 1
\* similarity_threshold le=1, in the unit of Scores
ScoreOne == 100
\* max_results le=20
MaxResultsLe == 20

Scores == 0..MaxScore

\* The similarity 1 - (embedding <=> query) of the rows of the table, by id
SimInputs == {<<>>} \cup SeqsUpTo(Scores, MaxRows)

Requests ==
    [query_len : {0, 1},
     max_results : {0, 1, 2, MaxResultsLe, MaxResultsLe + 1},
     similarity_threshold : {-1, ScoreOne, ScoreOne + 1} \cup Scores]

NoRequest == [query_len |-> 0, max_results |-> 0, similarity_threshold |-> 0]

\* A mutation of ValidRequest: the upper limits are not enforced
ValidRequestNoUpperLimit(req) ==
    /\ req.query_len >= 1
    /\ req.max_results >= 1
    /\ req.similarity_threshold >= 0

\* SearchRequest: min_length=1, ge=1 le=20, ge=0 le=1
ValidRequest(req) ==
    /\ req.query_len >= 1
    /\ req.max_results >= 1 /\ req.max_results <= MaxResultsLe
    /\ req.similarity_threshold >= 0 /\ req.similarity_threshold <= ScoreOne

\* A mutation of ModelMissing: the handler goes on without the model
ModelMissingIgnored(model) == FALSE

\* "if not embedding_model" at the head of the /search handler
ModelMissing(model) == ~model

\* A mutation of Qualifies: a strict comparison
QualifiesStrict(score, thr) == score > thr

\* WHERE 1 - (embedding <=> %s::vector) >= %s
Qualifies(score, thr) == score >= thr

RECURSIVE OrderByDesc(_, _)
\* ORDER BY similarity_score DESC: every order of the ids that is
\* non-increasing in score (SQL leaves the order of equal scores open)
OrderByDesc(ids, s) ==
    IF ids = {} THEN {<<>>}
    ELSE UNION {{<<i>> \o t : t \in OrderByDesc(ids \ {i}, s)} :
                    i \in {j \in ids : \A m \in ids : s[m] <= s[j]}}

\* LIMIT %s
Limit(rows, n) == SubSeq(rows, 1, Min(n, Len(rows)))

\* The rows the query of DatabaseManager.semantic_search can return
SemanticSearch(s, max_results, thr) ==
    {[k \in 1..Len(Limit(o, max_results)) |->
          [id |-> o[k], similarity_score |-> s[o[k]]]] :
        o \in OrderByDesc({i \in 1..Len(s) : Qualifies(s[i], thr)}, s)}

\* Connections left open by an operation that closes its connection only
\* at the end of its success path (test_connection, the /stats handler)
LeakOnSuccessPathClose(outcome) == IF outcome = "execute" THEN 1 ELSE 0

\* Connections left open by an operation that closes in a finally
LeakWithFinally(outcome) == 0

Response(op, status, embedded, searched, ids, connected) ==
    [op |-> op, status |-> status, embedded |-> embedded,
     searched |-> searched, ids |-> ids, database_connected |-> connected]

NoResponse == Response("none", 0, FALSE, FALSE, <<>>, FALSE)

\* Outcomes of an operation on the database: it succeeds, get_connection
\* raises, or a statement on the open connection raises.  An outcome that
\* leaves a connection open is taken only below MaxOpenConns.
DbOutcomes ==
    {"ok", "connect"} \cup (IF open_conns < MaxOpenConns THEN {"execute"} ELSE {})

ServiceRest ==
    /\ svc = "init"
    /\ embedding_model = FALSE
    /\ open_conns = 0
    /\ request = NoRequest
    /\ sim = <<>>
    /\ db_results = <<>>
    /\ response = NoResponse

Idle == response = NoResponse

\* startup_event: test_connection, then the model is loaded; either failure
\* raises RuntimeError
Startup ==
    /\ svc = "init"
    /\ Idle
    /\ \E outcome \in DbOutcomes, loaded \in BOOLEAN :
        /\ open_conns' = open_conns + LeakOnSuccessPathClose(outcome)
        /\ IF outcome # "ok"
           THEN svc' = "failed" /\ UNCHANGED embedding_model
           ELSE IF loaded
           THEN svc' = "ready" /\ embedding_model' = TRUE
           ELSE svc' = "failed" /\ UNCHANGED embedding_model
    /\ UNCHANGED <<request, sim, db_results, response>>
    /\ UNCHANGED <<chunkVars, runVars>>

\* GET /health
HealthCheck ==
    /\ svc \in {"init", "ready"}
    /\ Idle
    /\ \E outcome \in DbOutcomes :
        /\ open_conns' = open_conns + LeakOnSuccessPathClose(outcome)
        /\ response' = Response("health", 200, FALSE, FALSE, <<>>,
                                outcome = "ok")
    /\ UNCHANGED <<svc, embedding_model, request, sim, db_results>>
    /\ UNCHANGED <<chunkVars, runVars>>

\* POST /search: the SearchRequest validation, then the handler
SearchEndpoint ==
    /\ svc \in {"init", "ready"}
    /\ Idle
    /\ \E req \in Requests :
        /\ request' = req
        /\ IF ~ValidRequest(req)
           THEN /\ response' = Response("search", 422, FALSE, FALSE, <<>>, FALSE)
                /\ UNCHANGED <<sim, db_results, open_conns>>
           ELSE IF ModelMissing(embedding_model)
           THEN /\ response' = Response("search", 500, FALSE, FALSE, <<>>, FALSE)
                /\ UNCHANGED <<sim, db_results, open_conns>>
           ELSE \E outcome \in {"ok", "encode", "connect", "execute"} :
                IF outcome = "encode"
                THEN /\ response' =
                            Response("search", 500, TRUE, FALSE, <<>>, FALSE)
                     /\ UNCHANGED <<sim, db_results, open_conns>>
                ELSE IF outcome # "ok"
                THEN /\ response' =
                            Response("search", 500, TRUE, TRUE, <<>>, FALSE)
                     /\ open_conns' = open_conns + LeakWithFinally(outcome)
                     /\ UNCHANGED <<sim, db_results>>
                ELSE \E s \in SimInputs :
                     \E rows \in SemanticSearch(s, req.max_results,
                                                req.similarity_threshold) :
                        /\ sim' = s
                        /\ db_results' = rows
                        /\ open_conns' = open_conns + LeakWithFinally(outcome)
                        /\ response' =
                              Response("search", 200, TRUE, TRUE,
                                       [k \in 1..Len(rows) |-> rows[k].id],
                                       FALSE)
    /\ UNCHANGED <<svc, embedding_model>>
    /\ UNCHANGED <<chunkVars, runVars>>

\* GET /stats
GetDatabaseStats ==
    /\ svc \in {"init", "ready"}
    /\ Idle
    /\ \E outcome \in DbOutcomes :
        /\ open_conns' = open_conns + LeakOnSuccessPathClose(outcome)
        /\ response' = Response("stats", IF outcome = "ok" THEN 200 ELSE 500,
                                FALSE, FALSE, <<>>, FALSE)
    /\ UNCHANGED <<svc, embedding_model, request, sim, db_results>>
    /\ UNCHANGED <<chunkVars, runVars>>

\* The answer is sent; the handler's locals are gone
Reply ==
    /\ ~Idle
    /\ request' = NoRequest
    /\ sim' = <<>>
    /\ db_results' = <<>>
    /\ response' = NoResponse
    /\ UNCHANGED <<svc, embedding_model, open_conns>>
    /\ UNCHANGED <<chunkVars, runVars>>

----------------------------------------------------------------------------
\* Specifications

NextChunk == ChunkLoop \/ ChunkReturn

InitChunk == ChunkInit /\ RunRest /\ ServiceRest

SpecChunk == InitChunk /\ [][NextChunk]_vars

NextRun ==
    \/ StartRun
    \/ LoadPapers
    \/ LoadPapersNoFile
    \/ FilterProcessed
    \/ LoadModel
    \/ ProcessPaper
    \/ InsertRow
    \/ InsertCommit
    \/ Report
    \/ Exit

InitRun == ChunkRest /\ RunRest /\ ServiceRest

SpecRun == InitRun /\ [][NextRun]_vars

NextService ==
    \/ Startup
    \/ HealthCheck
    \/ SearchEndpoint
    \/ GetDatabaseStats
    \/ Reply

InitService == ChunkRest /\ RunRest /\ ServiceRest

SpecService == InitService /\ [][NextService]_vars

----------------------------------------------------------------------------
\* Claims about chunk_text

\* C1 (as stated): no emitted chunk has word_count above chunk_size, except
\* a chunk that is exactly one sentence which is itself longer than
\* chunk_size.
C1_ChunkWithinWindow ==
    \A k \in 1..Len(chunks) :
        \/ chunks[k].word_count <= chunk_size
        \/ /\ Len(chunks[k].sents) = 1
           /\ sentences[chunks[k].sents[1]] > chunk_size

RECURSIVE CommonLen(_, _, _)
\* The longest n <= m such that the first n sentences of cur are the last n
\* sentences of prev
CommonLen(prev, cur, m) ==
    IF m = 0 THEN 0
    ELSE IF SubSeq(cur, 1, m) = SubSeq(prev, Len(prev) - m + 1, Len(prev))
         THEN m
         ELSE CommonLen(prev, cur, m - 1)

\* cur without the leading sentences it repeats from the end of prev
DropRepeated(prev, cur) ==
    SubSeq(cur, CommonLen(prev, cur, Min(Len(prev), Len(cur))) + 1, Len(cur))

RECURSIVE Reconstruct(_, _)
\* The chunks from k on, concatenated with the overlaps removed
Reconstruct(cs, k) ==
    IF k > Len(cs) THEN <<>>
    ELSE (IF k = 1 THEN cs[1].sents
          ELSE DropRepeated(cs[k - 1].sents, cs[k].sents))
         \o Reconstruct(cs, k + 1)

\* C2: the chunks of a finished chunk_text, overlaps removed and
\* concatenated, are the original sentence sequence: nothing lost, nothing
\* duplicated, order kept.
C2_ChunksReconstructText ==
    cpc = "done" => Reconstruct(chunks, 1) = [p \in 1..Len(sentences) |-> p]

\* C2 witness: a finished run with at least three chunks, an overlap in use
\* and a chunk that begins with a sentence of the chunk before it.
C2_Witness ==
    /\ cpc = "done"
    /\ chunk_overlap > 0
    /\ Len(chunks) >= 3
    /\ \E k \in 2..Len(chunks) :
          CommonLen(chunks[k - 1].sents, chunks[k].sents,
                    Min(Len(chunks[k - 1].sents), Len(chunks[k].sents))) > 0

----------------------------------------------------------------------------
\* Claims about the ingestion run

\* Every line of the data file is a document whose title the store held
\* when the run started
AllTitlesPresent ==
    /\ lines # <<>>
    /\ \A n \in 1..Len(lines) :
          lines[n].kind = "doc" /\ lines[n].title \in StoredTitles(store0)

\* C3 (as stated): a run over documents whose titles are all in the store
\* calls process_paper for none of them and leaves the rows of the store
\* as they were.
C3_RerunProcessesNothing ==
    (rpc # "idle" /\ AllTitlesPresent)
        => /\ visited = <<>>
           /\ rpc # "insert"
           /\ pending = {}
           /\ store = store0

\* C4 (as stated): the store never holds two ingestions (two paper_id
\* groups) of one title.
C4_TitleIngestedOnce ==
    \A r, q \in store : r.title = q.title => r.paper_id = q.paper_id

\* C5: whatever a search or stats query can see (the committed rows) holds
\* each ingested document whole: for every paper_id present, the rows are
\* exactly those of chunk_index 0..total_chunks-1, also while an insert is
\* under way and after one failed with rows written.
C5_InsertAllOrNothing ==
    \A r \in store :
        {q.chunk_index : q \in {x \in store : x.paper_id = r.paper_id}}
            = 0..(r.total_chunks - 1)

\* C5 witness: an insert failed after it had written rows, next to a
\* committed document in the store.
C5_Witness ==
    /\ discarded >= 1
    /\ store # {}
    /\ \E k \in 1..Len(visited) : visited[k].count = 0

\* C6 (as stated): after load_papers every line that is not a document is
\* recorded in failed_papers with its line number, and no such line makes
\* run() end with an exception.
C6_BadLineSkippedAndRecorded ==
    rpc \notin {"idle", "load"} =>
        /\ \A n \in 1..Len(lines) :
              lines[n].kind # "doc" =>
                  \E k \in 1..Len(failed_papers) : failed_papers[k].line = n
        /\ abort_reason # "AttributeError"

VisitedPapers == [k \in 1..Len(visited) |-> visited[k].paper]

\* C7: process_paper is called on the papers of papers_to_process in input
\* order, each once; a paper that failed is in failed_papers under its
\* title; no failure of a paper ends the run: run() is left by an exception
\* only before the first paper or in the report after the last, and it
\* returns only after every paper was visited.
C7_EveryPaperVisitedInOrder ==
    /\ Len(visited) <= Len(papers_to_process)
    /\ VisitedPapers = SubSeq(papers_to_process, 1, Len(visited))
    /\ rpc \in {"process", "insert"} => Len(visited) = doc_i - 1
    /\ rpc = "returned" => Len(visited) = Len(papers_to_process)
    /\ rpc = "aborted" =>
          \/ visited = <<>>
          \/ count_emitted /\ Len(visited) = Len(papers_to_process)
    /\ \A k \in 1..Len(visited) :
          visited[k].count = 0 =>
              \E j \in 1..Len(failed_papers) :
                  /\ failed_papers[j].line = 0
                  /\ failed_papers[j].title \in
                        {TitleOr(visited[k].paper, "Unknown"),
                         TitleOr(visited[k].paper, "Untitled")}

\* C7 witness: the run returned after a paper that failed in the insert and
\* a later paper that was stored.
C7_Witness ==
    /\ rpc = "returned"
    /\ Len(visited) >= 2
    /\ visited[1].count = 0
    /\ visited[2].count > 0
    /\ count_emitted

\* C8 (as stated): when run() returns, the failures it recorded have been
\* written to failed_papers.log and the failure count has been logged.
C8_FailuresReported ==
    (rpc = "returned" /\ failed_papers # <<>>)
        => /\ count_emitted
           /\ log_written
           /\ failed_log = failed_papers

----------------------------------------------------------------------------
\* Claims about the service

\* C9 (as stated): whenever no operation is under way, no connection is
\* open.
C9_NoConnectionLeft == open_conns = 0

\* C10: a successful semantic_search returns at most max_results rows, each
\* with its own score and a score of at least similarity_threshold, no row
\* twice, in non-increasing order of score; and a qualifying row is left
\* out only when max_results rows were returned, none scoring below it.
C10_SearchRanked ==
    (response.op = "search" /\ response.status = 200) =>
        LET R == db_results
            returned == {R[k].id : k \in 1..Len(R)}
        IN  /\ Len(R) <= request.max_results
            /\ Cardinality(returned) = Len(R)
            /\ \A k \in 1..Len(R) :
                  /\ R[k].id \in 1..Len(sim)
                  /\ R[k].similarity_score = sim[R[k].id]
                  /\ R[k].similarity_score >= request.similarity_threshold
            /\ \A k \in 1..(Len(R) - 1) :
                  R[k].similarity_score >= R[k + 1].similarity_score
            /\ \A i \in 1..Len(sim) :
                  (i \notin returned /\ sim[i] >= request.similarity_threshold)
                      => /\ Len(R) = request.max_results
                         /\ \A k \in 1..Len(R) : R[k].similarity_score >= sim[i]

\* C10 witness: a search that cut the qualifying rows at max_results, left
\* a row below the threshold out and returned rows of different scores.
C10_Witness ==
    /\ response.op = "search" /\ response.status = 200
    /\ Len(db_results) = request.max_results
    /\ Len(db_results) >= 2
    /\ db_results[1].similarity_score > db_results[2].similarity_score
    /\ \E i \in 1..Len(sim) : sim[i] < request.similarity_threshold
    /\ Cardinality({i \in 1..Len(sim) :
                        sim[i] >= request.similarity_threshold})
          > request.max_results

----------------------------------------------------------------------------
\* Claims about a stored document

\* insert_paper_chunks returned normally to process_paper, which returned
\* len(chunks) to run()
InsertSucceeds ==
    /\ rpc = "insert"
    /\ rpc' = "process"
    /\ processed_papers' = processed_papers + 1

----------------------------------------------------------------------------
\* More claims about chunk_text

RECURSIVE WordsOfText(_, _, _)
\* len(text.split()) of the text ' '.join of the sentences ps[k..]: the
\* tokens of the joined text are the tokens of its sentences
WordsOfText(lens, ps, k) ==
    IF k > Len(ps) THEN 0 ELSE lens[ps[k]] + WordsOfText(lens, ps, k + 1)

\* C12 (as stated): chunk_text of an empty or whitespace-only cleaned text
\* returns no chunk, and no emitted chunk has an empty text.
C12_EmptyTextNoChunks ==
    cpc = "done" =>
        /\ sentences = <<0>> => chunks = <<>>
        /\ \A k \in 1..Len(chunks) :
              WordsOfText(sentences, chunks[k].sents, 1) > 0

\* C13 (as stated): a sentence longer than chunk_size is in one chunk only
\* and is the only sentence of that chunk.
C13_OversizedSentenceAlone ==
    cpc = "done" =>
        \A p \in 1..Len(sentences) :
            sentences[p] > chunk_size =>
                \A k \in 1..Len(chunks) :
                    (\E n \in 1..Len(chunks[k].sents) : chunks[k].sents[n] = p)
                        => chunks[k].sents = <<p>>

----------------------------------------------------------------------------
\* More claims about the service

\* The request breaks a constraint of POST /search: an empty query,
\* max_results outside 1..20 or similarity_threshold outside 0..1
OutOfRange(req) ==
    \/ req.query_len = 0
    \/ req.max_results < 1 \/ req.max_results > 20
    \/ req.similarity_threshold < 0 \/ req.similarity_threshold > ScoreOne

\* C14: a /search request that breaks a constraint is answered with a
\* validation error; the query was not embedded, semantic_search was not
\* called and nothing was returned.
C14_InvalidRequestRejected ==
    (response.op = "search" /\ OutOfRange(request)) =>
        /\ response.status = 422
        /\ ~response.embedded
        /\ ~response.searched
        /\ response.ids = <<>>
        /\ db_results = <<>>

\* C14 witness: a loaded service rejected a request whose only fault is
\* max_results = 21.
C14_Witness ==
    /\ response.op = "search"
    /\ embedding_model
    /\ request.query_len = 1
    /\ request.max_results = 21
    /\ request.similarity_threshold = 0
    /\ response.status = 422

----------------------------------------------------------------------------
\* Claims about the overlap and the word count of chunks

\* The last sentences of a closed chunk that the next chunk must begin
\* with: the last ov of them (all of them when the chunk has no more than
\* ov) when ov > 0 and the chunk has more than one sentence, none otherwise
ExpectedSeed(closed, ov) ==
    IF ov > 0 /\ Len(closed) > 1
    THEN [n \in 1..Min(ov, Len(closed)) |->
              closed[Len(closed) - Min(ov, Len(closed)) + n]]
    ELSE <<>>

\* next begins with the seed of closed, followed by the sentence after the
\* last one of closed
BeginsAfter(closed, next, ov) ==
    LET seed == ExpectedSeed(closed, ov)
    IN  /\ Len(next) > Len(seed)
        /\ SubSeq(next, 1, Len(seed)) = seed
        /\ next[Len(seed) + 1] = closed[Len(closed)] + 1

\* C16: every chunk closed because the next sentence would exceed
\* chunk_size is followed by a chunk that begins with its last
\* chunk_overlap sentences when chunk_overlap > 0 and it had more than one
\* sentence, and with the next sentence alone otherwise; three two-word
\* sentences with chunk_size 4 and chunk_overlap 1 give two chunks, the
\* second beginning with the sentence that ended the first.
C16_NextChunkBeginsWithOverlap ==
    /\ \A k \in 1..(Len(chunks) - 1) :
          BeginsAfter(chunks[k].sents, chunks[k + 1].sents, chunk_overlap)
    /\ (cpc = "loop" /\ chunks # <<>>) =>
          BeginsAfter(chunks[Len(chunks)].sents, current_chunk, chunk_overlap)
    /\ (cpc = "done" /\ sentences = <<2, 2, 2>> /\ chunk_size = 4
            /\ chunk_overlap = 1) =>
          /\ Len(chunks) = 2
          /\ chunks[1].sents = <<1, 2>>
          /\ chunks[2].sents = <<2, 3>>

\* C16 witness: a finished chunk_text in which a chunk of three sentences
\* was closed and the next chunk begins with its last two.
C16_Witness ==
    /\ cpc = "done"
    /\ chunk_overlap = 2
    /\ \E k \in 1..(Len(chunks) - 1) :
          /\ Len(chunks[k].sents) = 3
          /\ Len(chunks[k + 1].sents) = 3
          /\ chunks[k + 1].sents[1] = chunks[k].sents[2]
          /\ chunks[k + 1].sents[2] = chunks[k].sents[3]

\* C17: the word_count of every emitted chunk is the number of words of
\* its text, the words of the sentences joined into it; the running count
\* agrees with the growing chunk as well.
C17_WordCountIsTokenCount ==
    /\ \A k \in 1..Len(chunks) :
          chunks[k].word_count = WordsOfText(sentences, chunks[k].sents, 1)
    /\ cpc = "loop" =>
          current_length = WordsOfText(sentences, current_chunk, 1)

\* C17 witness: a finished chunk_text with a chunk closed mid-stream, a
\* chunk seeded with overlap sentences and the final chunk, of different
\* word counts.
C17_Witness ==
    /\ cpc = "done"
    /\ chunk_overlap > 0
    /\ Len(chunks) >= 3
    /\ Len(chunks[2].sents) >= 2
    /\ chunks[2].sents[1] = chunks[1].sents[Len(chunks[1].sents)]
    /\ chunks[1].word_count # chunks[2].word_count
    /\ chunks[2].word_count # chunks[3].word_count

----------------------------------------------------------------------------
\* The accounting of run()

\* The papers process_paper returned a positive chunk count for
StoredVisits == {k \in 1..Len(visited) : visited[k].count > 0}

\* The entries of failed_papers recorded by process_paper (those of
\* load_papers carry a line number)
ProcessingFailures == {j \in 1..Len(failed_papers) : failed_papers[j].line = 0}

\* The loop over papers_to_process has ended
LoopFinished == (rpc = "process" /\ doc_i > Len(papers_to_process)) \/ count_emitted

\* C18: during a run processed_papers counts the papers whose rows were
\* committed, every other visited paper has one entry of failed_papers,
\* and total_chunks is the number of rows this run committed; when the
\* loop has ended, processed_papers plus the failures recorded in it is
\* len(papers_to_process).
C18_RunAccounting ==
    rpc # "idle" =>
        /\ processed_papers = Cardinality(StoredVisits)
        /\ Cardinality(ProcessingFailures) = Len(visited) - Cardinality(StoredVisits)
        /\ total_chunks = Cardinality(store \ store0)
        /\ \A k \in StoredVisits :
              \E r \in store \ store0 : r.title = visited[k].paper.title
        /\ LoopFinished =>
              processed_papers + Cardinality(ProcessingFailures)
                  = Len(papers_to_process)

\* C18 witness: the loop ended over two papers, one stored with two chunks
\* and one that failed.
C18_Witness ==
    /\ rpc = "process"
    /\ doc_i > Len(papers_to_process)
    /\ Len(papers_to_process) = 2
    /\ processed_papers = 1
    /\ total_chunks = 2
    /\ Cardinality(ProcessingFailures) = 1
====
